---- MODULE Spec2Model ----
(***************************************************************************)
(* Model of src/app.py (DefenSys Pro): the Streamlit session (login gate,  *)
(* page dispatch, session history) and the scoring function detect_fraud.  *)
(*                                                                         *)
(* Units.  The library's anomaly scores (score_samples, decision_function) *)
(* are integers in units of 1e-5; a Risk Score is an integer in units of   *)
(* 0.01 (so 30.00 is 3000).  -100 * decision is then an integer in units   *)
(* of 0.001 and np.round(_, 2) is a real rounding step.                    *)
(*                                                                         *)
(* A table (DataFrame) is [dtypes |-> column -> dtype, rows |-> sequence   *)
(* of column -> value].  None is NoTable.                                  *)
(***************************************************************************)
EXTENDS Integers, Sequences, FiniteSets, TLC

VARIABLES
  session_state,  \* st.session_state: a function over a subset of {"auth","history"}
  pageRan,        \* which page function the last script run executed ("none": st.stop())
  entryLoggedIn,  \* auth.logged_in as login() found it in the last script run
  input,          \* the table as the caller held it just before detect_fraud(df)
  df,             \* the caller's table object after the call
  result,         \* the value detect_fraud returned (NoTable: nothing returned)
  error,          \* exception of the last run / call: "none", "ValueError", "KeyError"
  listed,         \* what the History page rendered in the last run
  scored,         \* log of the tables scored by dashboard runs, oldest first
  calls,          \* API harness: 0 none yet, 1 first call on a table, 2 a repeated call
  featuresFirst,  \* feature columns the first call on the current table fitted on
  featuresUsed,   \* feature columns the last call fitted on
  scores,         \* score_samples of the last fit, by row position
  offset          \* offset_ of the last fit (the contamination percentile)

vars == <<session_state, pageRan, entryLoggedIn, input, df, result, error,
          listed, scored, calls, featuresFirst, featuresUsed, scores, offset>>

----------------------------------------------------------------------------
(* Bounds and input sets *)

MaxRows == 12
MaxHistory == 6

NoTable == [none |-> TRUE]

Roles == {"Admin", "Analyst", "Viewer"}
Users == {"", "alice"}
Passwords == {"", "pw"}

\* Rows of the tables handed to the program: two distinct outlying rows
\* followed by copies of one ordinary row.
Row(i) ==
  IF i = 1 THEN [amount |-> 9000, merchant |-> "m1"]
  ELSE IF i = 2 THEN [amount |-> 700, merchant |-> "m2"]
  ELSE [amount |-> 20, merchant |-> "m3"]

\* A table with one numeric and one text column and n rows.
Table(n) ==
  [dtypes |-> [c \in {"amount", "merchant"} |-> IF c = "amount" THEN "number" ELSE "object"],
   rows |-> [i \in 1..n |-> Row(i)]]

\* A table with no numeric column.
TextOnly(n) ==
  [dtypes |-> [c \in {"merchant"} |-> "object"],
   rows |-> [i \in 1..n |-> [merchant |-> Row(i).merchant]]]

RowCounts == {0, 1, 2, 5, MaxRows - 1, MaxRows}
ApiTables == {Table(n) : n \in RowCounts} \cup {TextOnly(2)}
DemoTable == Table(2)
Uploads == {Table(0), TextOnly(2)}

\* score_samples values the forest may assign (units of 1e-5, in [-1, 0)).
ScoreValues == {-90000, -50000, -10050}
AppScoreValues == {-90000, -10000}

----------------------------------------------------------------------------
(* Helpers *)

Range(s) == {s[i] : i \in DOMAIN s}

Min(a, b) == IF a < b THEN a ELSE b

----------------------------------------------------------------------------
(* detect_fraud and the library calls it makes *)

ContaminationPct == 10
RiskDecimalsStep == 10
BinFloor == -100
BinLow == 3000
BinMedium == 6000
BinTop == 999900

AnnotationCols == {"Risk Score", "Severity", "Status"}

\* df.select_dtypes(include=[np.number]): the numeric columns, in row order.
NumericCols(t) == {c \in DOMAIN t.dtypes : t.dtypes[c] = "number"}

select_dtypes(t) == [i \in 1..Len(t.rows) |-> [c \in NumericCols(t) |-> t.rows[i][c]]]

\* IsolationForest.fit validates its input: an array with no sample or no
\* feature is rejected with ValueError before anything is fitted.
FitRaises(t) == Len(t.rows) = 0 \/ NumericCols(t) = {}

\* The scores a fit may produce for feature rows X.  The forest is built with
\* no random_state, so any assignment is possible, except that rows with equal
\* features take the same path in every tree and get the same score.
\* f assigns a score to each distinct feature row.
ScoreSamples(X, f) == [i \in 1..Len(X) |-> f[X[i]]]

\* np.percentile(s, q), linear interpolation between the two closest ranks.
Percentile(s, q) ==
  LET n == Len(s)
      sorted == SortSeq(s, LAMBDA a, b : a < b)
      lo == ((n - 1) * q) \div 100
      num == ((n - 1) * q) % 100
      hi == Min(lo + 2, n)
  IN sorted[lo + 1] + (num * (sorted[hi] - sorted[lo + 1])) \div 100

\* model.decision_function: score_samples - offset_.
decision_function(s, off) == [i \in 1..Len(s) |-> s[i] - off]

\* fit_predict: -1 (outlier) where the decision function is negative, else 1.
fit_predict(s, off) == [i \in 1..Len(s) |-> IF s[i] - off < 0 THEN -1 ELSE 1]

\* np.round(x, 2) on a value in units of 0.001: round half to even.
RoundHalfEven(v) ==
  LET q == v \div RiskDecimalsStep
      r == v % RiskDecimalsStep
  IN IF 2 * r < RiskDecimalsStep THEN q
     ELSE IF 2 * r > RiskDecimalsStep THEN q + 1
     ELSE IF q % 2 = 0 THEN q ELSE q + 1

\* Variant: the decision function scaled by 100 instead of -100.
RiskScore_unnegated(d) == RoundHalfEven(d)

\* np.round(decision * -100, 2), in units of 0.01.
RiskScore(d) == RoundHalfEven(0 - d)

\* pd.cut(risk, [-1, 30, 60, 9999], labels=[Low, Medium, High]): right-closed
\* bins; a value outside every bin gets no label (NaN).
Severity(r) ==
  IF r > BinFloor /\ r <= BinLow THEN "Low"
  ELSE IF r > BinLow /\ r <= BinMedium THEN "Medium"
  ELSE IF r > BinMedium /\ r <= BinTop THEN "High"
  ELSE "NaN"

\* Variant: the two labels of np.where exchanged.
StatusLabel_flipped(p) == IF p = -1 THEN "Normal" ELSE "Suspicious"

\* np.where(preds == -1, Suspicious, Normal)
StatusLabel(p) == IF p = -1 THEN "Suspicious" ELSE "Normal"

\* Variant: the annotations are assigned in descending row order.
detect_fraud_reversed(t, s) ==
  LET off == Percentile(s, ContaminationPct)
      dec == decision_function(s, off)
      preds == fit_predict(s, off)
      n == Len(t.rows)
  IN [dtypes |-> ("Risk Score" :> "number" @@ "Severity" :> "category"
                   @@ "Status" :> "object") @@ t.dtypes,
      rows |-> [i \in 1..n |->
                 ("Risk Score" :> RiskScore(dec[n + 1 - i])
                  @@ "Severity" :> Severity(RiskScore(dec[n + 1 - i]))
                  @@ "Status" :> StatusLabel(preds[n + 1 - i])) @@ t.rows[i]]]

\* detect_fraud(df) for a fit that produced scores s: the three columns are
\* assigned into df itself, and df is what is returned.
detect_fraud(t, s) ==
  LET off == Percentile(s, ContaminationPct)
      dec == decision_function(s, off)
      preds == fit_predict(s, off)
  IN [dtypes |-> ("Risk Score" :> "number" @@ "Severity" :> "category"
                   @@ "Status" :> "object") @@ t.dtypes,
      rows |-> [i \in 1..Len(t.rows) |->
                 ("Risk Score" :> RiskScore(dec[i])
                  @@ "Severity" :> Severity(RiskScore(dec[i]))
                  @@ "Status" :> StatusLabel(preds[i])) @@ t.rows[i]]]

\* One call detect_fraud(t) by a caller holding t: the effect on the caller's
\* table, the returned value and the exception, with f the fit's outcome.
CallDetectFraud(t, f) ==
  /\ input' = t
  /\ featuresUsed' = NumericCols(t)
  /\ IF FitRaises(t)
       THEN /\ df' = t
            /\ result' = NoTable
            /\ error' = "ValueError"
            /\ scores' = <<>>
            /\ offset' = 0
       ELSE LET s == ScoreSamples(select_dtypes(t), f)
            IN /\ df' = detect_fraud(t, s)
               /\ result' = df'
               /\ error' = "none"
               /\ scores' = s
               /\ offset' = Percentile(s, ContaminationPct)

\* The outcomes a fit on t can have, over the score values V.
FitOutcomes(t, V) == [Range(select_dtypes(t)) -> V]

----------------------------------------------------------------------------
(* Direct callers of detect_fraud *)

Init ==
  /\ session_state = <<>>
  /\ pageRan = "none"
  /\ entryLoggedIn = FALSE
  /\ input = NoTable
  /\ df = NoTable
  /\ result = NoTable
  /\ error = "none"
  /\ listed = <<>>
  /\ scored = <<>>
  /\ calls = 0
  /\ featuresFirst = {}
  /\ featuresUsed = {}
  /\ scores = <<>>
  /\ offset = 0

sessionVars == <<session_state, pageRan, entryLoggedIn, listed, scored>>

\* A caller scores a table it has just built.
ApiCall(t, f) ==
  /\ CallDetectFraud(t, f)
  /\ calls' = 1
  /\ featuresFirst' = NumericCols(t)
  /\ UNCHANGED sessionVars

\* A caller scores again the table an earlier call annotated.
ApiRecall ==
  /\ calls >= 1
  /\ result # NoTable
  /\ \E f \in FitOutcomes(df, ScoreValues) : CallDetectFraud(df, f)
  /\ calls' = 2
  /\ UNCHANGED featuresFirst
  /\ UNCHANGED sessionVars

NextScore ==
  \/ \E t \in ApiTables : \E f \in FitOutcomes(t, ScoreValues) : ApiCall(t, f)
  \/ ApiRecall

SpecScore == Init /\ [][NextScore]_vars

FairSpecScore == SpecScore /\ WF_vars(NextScore)

----------------------------------------------------------------------------
(* The Streamlit session: every action is one script run of main() *)

HistoryShown == 5
HeadRows == 10

Pages == {"Dashboard", "Profile", "History", "Settings"}

LoggedIn(ss) == "auth" \in DOMAIN ss /\ ss["auth"].logged_in

\* Variant: st.stop() placed in the else branch, so the run in which the form
\* is accepted goes on to the page.
login_stop_on_failure_only(ss, submit, user, pw, role) ==
  LET ss1 == IF "auth" \notin DOMAIN ss
               THEN ("auth" :> [logged_in |-> FALSE, role |-> "None"]) @@ ss
               ELSE ss
  IN IF ~ss1["auth"].logged_in
       THEN IF submit /\ user # "" /\ pw # ""
              THEN [ss |-> ("auth" :> [logged_in |-> TRUE, role |-> role, user |-> user]) @@ ss1,
                    stopped |-> FALSE]
              ELSE [ss |-> ss1, stopped |-> TRUE]
       ELSE [ss |-> ss1, stopped |-> FALSE]

\* login(): the session state it leaves and whether it ended the run with
\* st.stop().  submit, user, pw, role are the form's widget values.
login(ss, submit, user, pw, role) ==
  LET ss1 == IF "auth" \notin DOMAIN ss
               THEN ("auth" :> [logged_in |-> FALSE, role |-> "None"]) @@ ss
               ELSE ss
  IN IF ~ss1["auth"].logged_in
       THEN [ss |-> IF submit /\ user # "" /\ pw # ""
                      THEN ("auth" :> [logged_in |-> TRUE, role |-> role, user |-> user]) @@ ss1
                      ELSE ss1,
             stopped |-> TRUE]
       ELSE [ss |-> ss1, stopped |-> FALSE]

\* st.session_state.history, [] while the key is not set.
HistoryOf(ss) == IF "history" \in DOMAIN ss THEN ss["history"] ELSE <<>>

\* Variant: the append is reached even when detect_fraud threw.
record_history_always(ss, raised, res) ==
  ("history" :> Append(HistoryOf(ss), res)) @@ ss

\* Lines 70-72 of dashboard(): create the history list if missing, append the
\* result.  raised: detect_fraud threw and the rest of dashboard() was skipped.
record_history(ss, raised, res) ==
  IF raised THEN ss
  ELSE ("history" :> Append(HistoryOf(ss), res)) @@ ss

\* session.head(10)
head(t, k) == [t EXCEPT !.rows = SubSeq(t.rows, 1, Min(k, Len(t.rows)))]

\* Variant: the slice history[:5] instead of history[-5:].
history_first5(ss) ==
  IF "history" \in DOMAIN ss
    THEN LET h == ss["history"]
             last == SubSeq(h, 1, Min(HistoryShown, Len(h)))
         IN [i \in 1..Len(last) |->
               [label |-> i, session |-> head(last[Len(last) + 1 - i], HeadRows)]]
    ELSE <<>>

\* history(): the expanders rendered, top to bottom.
history(ss) ==
  IF "history" \in DOMAIN ss
    THEN LET h == ss["history"]
             n == Len(h)
             last == SubSeq(h, IF n > HistoryShown THEN n - HistoryShown + 1 ELSE 1, n)
         IN [i \in 1..Len(last) |->
               [label |-> i, session |-> head(last[Len(last) + 1 - i], HeadRows)]]
    ELSE <<>>

\* profile(): KeyError when the auth record lacks an entry it prints.
profile(ss) ==
  IF {"user", "role"} \subseteq DOMAIN ss["auth"] THEN "none" ELSE "KeyError"

NoCall ==
  /\ input' = NoTable
  /\ df' = NoTable
  /\ result' = NoTable
  /\ scores' = <<>>
  /\ offset' = 0
  /\ featuresUsed' = {}

apiVars == <<calls, featuresFirst>>

\* A run that login() ends with st.stop(): the form is shown, no page runs.
MainLogin(form) ==
  LET l == login(session_state, form.submit, form.user, form.pw, form.role)
  IN /\ l.stopped
     /\ session_state' = l.ss
     /\ entryLoggedIn' = LoggedIn(session_state)
     /\ pageRan' = "none"
     /\ error' = "none"
     /\ listed' = <<>>
     /\ NoCall
     /\ UNCHANGED <<scored, apiVars>>

\* A run that reaches pages[nav]() with nav = Dashboard.  uploaded is the
\* parsed upload (NoTable: nothing uploaded).
MainDashboard(form, use_demo, uploaded) ==
  LET l == login(session_state, form.submit, form.user, form.pw, form.role)
      t == IF use_demo THEN DemoTable ELSE uploaded
  IN /\ ~l.stopped
     /\ Len(HistoryOf(l.ss)) < MaxHistory
     /\ entryLoggedIn' = LoggedIn(session_state)
     /\ pageRan' = "Dashboard"
     /\ listed' = <<>>
     /\ IF t = NoTable
          THEN /\ NoCall
               /\ error' = "none"
               /\ session_state' = l.ss
               /\ UNCHANGED scored
          ELSE /\ \E f \in FitOutcomes(t, AppScoreValues) : CallDetectFraud(t, f)
               /\ session_state' = record_history(l.ss, error' # "none", result')
               /\ scored' = IF error' # "none" THEN scored ELSE Append(scored, result')
     /\ UNCHANGED apiVars

MainProfile(form) ==
  LET l == login(session_state, form.submit, form.user, form.pw, form.role)
  IN /\ ~l.stopped
     /\ session_state' = l.ss
     /\ entryLoggedIn' = LoggedIn(session_state)
     /\ pageRan' = "Profile"
     /\ error' = profile(l.ss)
     /\ listed' = <<>>
     /\ NoCall
     /\ UNCHANGED <<scored, apiVars>>

MainHistory(form) ==
  LET l == login(session_state, form.submit, form.user, form.pw, form.role)
  IN /\ ~l.stopped
     /\ session_state' = l.ss
     /\ entryLoggedIn' = LoggedIn(session_state)
     /\ pageRan' = "History"
     /\ error' = "none"
     /\ listed' = history(l.ss)
     /\ NoCall
     /\ UNCHANGED <<scored, apiVars>>

MainSettings(form) ==
  LET l == login(session_state, form.submit, form.user, form.pw, form.role)
  IN /\ ~l.stopped
     /\ session_state' = l.ss
     /\ entryLoggedIn' = LoggedIn(session_state)
     /\ pageRan' = "Settings"
     /\ error' = "none"
     /\ listed' = <<>>
     /\ NoCall
     /\ UNCHANGED <<scored, apiVars>>

\* The widget values a run can see: the login form exists only while the
\* session is not logged in.
FormInputs(ss) ==
  IF LoggedIn(ss)
    THEN {[submit |-> FALSE, user |-> "", pw |-> "", role |-> "Admin"]}
    ELSE [submit : BOOLEAN, user : Users, pw : Passwords, role : Roles]

Next ==
  \/ \E form \in FormInputs(session_state) : MainLogin(form)
  \/ \E form \in FormInputs(session_state), use_demo \in BOOLEAN,
        uploaded \in Uploads \cup {NoTable} :
       MainDashboard(form, use_demo, uploaded)
  \/ \E form \in FormInputs(session_state) : MainProfile(form)
  \/ \E form \in FormInputs(session_state) : MainHistory(form)
  \/ \E form \in FormInputs(session_state) : MainSettings(form)

Spec == Init /\ [][Next]_vars

----------------------------------------------------------------------------
(* Properties *)

Scored == result # NoTable

RowsOf(t) == 1..Len(t.rows)

Abs(x) == IF x < 0 THEN 0 - x ELSE x

\* The rows the last call marked Suspicious.
SuspiciousRows == {i \in RowsOf(result) : result.rows[i]["Status"] = "Suspicious"}

\* At most one row's score sits exactly on the decision threshold.
NoTiesAtThreshold == Cardinality({i \in DOMAIN scores : scores[i] = offset}) <= 1

\* A table without the three annotation columns.
Unannotated(t) ==
  [dtypes |-> [c \in DOMAIN t.dtypes \ AnnotationCols |-> t.dtypes[c]],
   rows |-> [i \in RowsOf(t) |->
              [c \in DOMAIN t.rows[i] \ AnnotationCols |-> t.rows[i][c]]]]

\* The tier the severity rule of the specification gives a risk score.
ClaimedSeverity(r) ==
  IF r <= BinLow THEN "Low" ELSE IF r <= BinMedium THEN "Medium" ELSE "High"

\* C1: the severity of every scored row is the total function of its risk
\* score with cut points 30 and 60: risk <= 30 Low (negative values included),
\* 30 < risk <= 60 Medium, risk > 60 High; no row is left without a tier.
C1_SeverityTotalCutPoints ==
  Scored =>
    \A i \in RowsOf(result) :
      result.rows[i]["Severity"] = ClaimedSeverity(result.rows[i]["Risk Score"])

\* C2: a scoring call never mutates the table it was given: after the call the
\* caller's table has the columns and cell values it had before the call.
C2_InputNotMutated == (input # NoTable) => (df = input)

C4_ContaminationLaw ==
  (Scored /\ NoTiesAtThreshold) =>
    /\ \A i \in RowsOf(result) :
         /\ (result.rows[i]["Status"] = "Suspicious")
              <=> (0 - scores[i] > 0 - Percentile(scores, ContaminationPct))
         /\ result.rows[i]["Status"] \in {"Suspicious", "Normal"}
    /\ Abs(100 * Cardinality(SuspiciousRows) - ContaminationPct * Len(result.rows)) <= 100

C4_Witness ==
  /\ Scored
  /\ NoTiesAtThreshold
  /\ Cardinality(SuspiciousRows) = 2
  /\ \E i \in RowsOf(result) : result.rows[i]["Status"] = "Normal"

\* C5: a dashboard run whose table has zero rows or no numeric column fails
\* with an error and leaves no partial state: nothing is returned, the table
\* gains no Risk Score, Severity or Status column, and the session state
\* (history included) is what it was before the run.
C5_FailedScoringLeavesNoState ==
  [][(pageRan' = "Dashboard" /\ input' # NoTable
        /\ (Len(input'.rows) = 0 \/ NumericCols(input') = {}))
       => /\ error' = "ValueError"
          /\ result' = NoTable
          /\ df' = input'
          /\ DOMAIN df'.dtypes \cap AnnotationCols = {}
          /\ session_state' = session_state]_vars

C5_Witness ==
  /\ pageRan = "Dashboard"
  /\ error = "ValueError"
  /\ input # NoTable
  /\ Len(input.rows) = 0
  /\ Len(HistoryOf(session_state)) >= 1

\* C6: every input row receives exactly one result, in input order: the
\* annotated table has as many rows as the input, row i keeps the input
\* values of input row i, and its risk score and status are the ones computed
\* from the score the forest gave row i.
C6_OneResultPerRowInOrder ==
  Scored =>
    /\ Len(result.rows) = Len(input.rows)
    /\ \A i \in RowsOf(result) :
         /\ AnnotationCols \subseteq DOMAIN result.rows[i]
         /\ \A c \in DOMAIN input.rows[i] \ AnnotationCols :
              result.rows[i][c] = input.rows[i][c]
         /\ result.rows[i]["Risk Score"] = RoundHalfEven(offset - scores[i])
         /\ (result.rows[i]["Status"] = "Suspicious") <=> (scores[i] < offset)

C6_Witness ==
  /\ Scored
  /\ Len(result.rows) = Len(input.rows)
  /\ \E i, j \in RowsOf(result) :
       /\ i < j
       /\ result.rows[i]["Risk Score"] # result.rows[j]["Risk Score"]
       /\ result.rows[i]["Status"] # result.rows[j]["Status"]

C8_RescoreSameFeatures ==
  (calls = 2) => (featuresUsed = featuresFirst /\ featuresUsed \cap AnnotationCols = {})

\* C9: a page function runs only in a run that login() entered with
\* auth.logged_in already true; whenever auth.logged_in is true the auth
\* record holds a non-empty user and a role; profile never reads a missing
\* entry.
C9_PagesBehindLogin ==
  /\ pageRan \in Pages => entryLoggedIn
  /\ LoggedIn(session_state) =>
       /\ {"user", "role"} \subseteq DOMAIN session_state["auth"]
       /\ session_state["auth"].user # ""
       /\ session_state["auth"].role \in Roles
  /\ pageRan = "Profile" => error = "none"

C9_Witness ==
  /\ pageRan = "Profile"
  /\ entryLoggedIn
  /\ error = "none"
  /\ session_state["auth"].user # ""

\* The listing the History page owes for the scored tables log, oldest first.
ExpectedListing(log) ==
  LET n == Len(log)
      k == Min(HistoryShown, n)
  IN [i \in 1..k |-> [label |-> i, session |-> head(log[n + 1 - i], HeadRows)]]

\* C10: the session history holds exactly one entry per run that scored a
\* table, in chronological order (so nothing is removed or reordered), and
\* the History page lists the last min(5, n) entries, newest first, numbered
\* from Session 1.
C10_HistoryLog ==
  /\ HistoryOf(session_state) = scored
  /\ pageRan = "History" => listed = ExpectedListing(scored)

C10_Witness ==
  /\ pageRan = "History"
  /\ Len(scored) > HistoryShown
  /\ Len(listed) = HistoryShown
  /\ scored[1] # scored[Len(scored)]
  /\ listed[1].session = scored[Len(scored)]

====
